---- MODULE Spec2Model ----
(***************************************************************************)
(* Model of the Kieskompas coalition picker (kieskompas/parser.js): the    *)
(* UIController that loads parties-data.json and kompas.svg, renders one   *)
(* checkbox per party, and on every change recomputes the selection, the   *)
(* coalition statistics, the `parties` URL parameter and the average       *)
(* marker on the compass.                                                  *)
(*                                                                         *)
(* Strings are sequences of one-character strings.  A JavaScript value     *)
(* that may be null is a sequence of length 0 (null) or 1.  Numbers that   *)
(* come out of a division are exact fractions <<n, d>> in lowest terms     *)
(* with d > 0; <<0, 0>> is NaN and <<1, 0>>, <<-1, 0>> are +-Infinity.     *)
(* Positions and percentages of the data document are integers, so the     *)
(* sums are exact and only the final division is modelled as a fraction.   *)
(***************************************************************************)
EXTENDS Integers, Sequences, FiniteSets, TLC

\* Largest number of parties in the data document.
MaxParties == 2

\* Largest factor by which seat counts are scaled.
MaxScale == 3

null == << >>

-----------------------------------------------------------------------------
(* String primitives of the JavaScript runtime used by the controller.     *)

LowerLetters ==
  << "a", "b", "c", "d", "e", "f", "g", "h", "i", "j", "k", "l", "m",
     "n", "o", "p", "q", "r", "s", "t", "u", "v", "w", "x", "y", "z" >>

UpperLetters ==
  << "A", "B", "C", "D", "E", "F", "G", "H", "I", "J", "K", "L", "M",
     "N", "O", "P", "Q", "R", "S", "T", "U", "V", "W", "X", "Y", "Z" >>

toUpperCaseChar(c) ==
  IF \E i \in 1..26 : LowerLetters[i] = c
    THEN UpperLetters[CHOOSE i \in 1..26 : LowerLetters[i] = c]
    ELSE c

toLowerCaseChar(c) ==
  IF \E i \in 1..26 : UpperLetters[i] = c
    THEN LowerLetters[CHOOSE i \in 1..26 : UpperLetters[i] = c]
    ELSE c

\* String.prototype.toUpperCase
toUpperCase(s) == [i \in 1..Len(s) |-> toUpperCaseChar(s[i])]

\* String.prototype.trim: drops the blanks at both ends.
RECURSIVE trimStart(_)
trimStart(s) ==
  IF s # << >> /\ Head(s) = " " THEN trimStart(Tail(s)) ELSE s

RECURSIVE trimEnd(_)
trimEnd(s) ==
  IF s # << >> /\ s[Len(s)] = " " THEN trimEnd(SubSeq(s, 1, Len(s) - 1)) ELSE s

trim(s) == trimEnd(trimStart(s))

\* String.prototype.split(sep) for a one-character separator.
RECURSIVE split(_, _)
split(s, sep) ==
  IF \E i \in 1..Len(s) : s[i] = sep
    THEN LET k == CHOOSE i \in 1..Len(s) :
                    s[i] = sep /\ \A j \in 1..(i - 1) : s[j] # sep
         IN  << SubSeq(s, 1, k - 1) >> \o split(SubSeq(s, k + 1, Len(s)), sep)
    ELSE << s >>

\* Array.prototype.join(sep)
RECURSIVE join(_, _)
join(a, sep) ==
  IF a = << >> THEN << >>
  ELSE IF Len(a) = 1 THEN a[1]
  ELSE a[1] \o sep \o join(Tail(a), sep)

\* Array.prototype.includes
includes(a, v) == \E i \in 1..Len(a) : a[i] = v

-----------------------------------------------------------------------------
(* Numbers.                                                                *)

Abs(n) == IF n < 0 THEN -n ELSE n

RECURSIVE GCD(_, _)
GCD(a, b) == IF b = 0 THEN a ELSE GCD(b, a % b)

NaN == << 0, 0 >>

\* The JavaScript quotient a / b of two integers.
Div(a, b) ==
  IF b = 0
    THEN (IF a = 0 THEN NaN ELSE IF a > 0 THEN << 1, 0 >> ELSE << -1, 0 >>)
    ELSE LET g == GCD(Abs(a), Abs(b))
             s == IF b < 0 THEN -1 ELSE 1
         IN  << (s * a) \div g, (s * b) \div g >>

\* q + k for an integer k
Plus(q, k) == IF q[2] = 0 THEN q ELSE << q[1] + k * q[2], q[2] >>

\* q >= 0 (false for NaN)
GreaterEqualZero(q) == q # NaN /\ q[1] >= 0

\* Math.abs
MathAbs(q) == << Abs(q[1]), q[2] >>

\* Number.prototype.toFixed(1) of a non-negative number: the nearest number
\* of tenths, the larger one on a tie; NaN prints as "NaN".
toFixed1(q) ==
  IF q[2] = 0
    THEN [text |-> "NaN", tenths |-> 0]
    ELSE [text |-> "number", tenths |-> (20 * q[1] + q[2]) \div (2 * q[2])]

-----------------------------------------------------------------------------
(* The data document parties-data.json.                                    *)

Party(shortName, x, y, politicalPosition, electionResults2025) ==
  [ shortName           |-> shortName,
    position            |-> [x |-> x, y |-> y],
    politicalPosition   |-> politicalPosition,
    electionResults2025 |-> electionResults2025 ]

Axis(value, direction) == << [value |-> value, direction |-> direction] >>

\* Party records as the offline generator writes them: the short name, the
\* icon position, the two axis percentages parsed from the icon title (both
\* null when the title does not match) and the seats looked up by short name
\* (null when the table has no entry for the name).
PartyPool ==
  { Party(<< "S", "P" >>, 10, 30,
          [horizontal |-> Axis(40, "rechts"), vertical |-> Axis(30, "conservatief")],
          << [seats |-> 3] >>),
    Party(<< "N", "S", "C" >>, 90, 70,
          [horizontal |-> Axis(20, "links"), vertical |-> Axis(50, "progressief")],
          << [seats |-> 0] >>),
    Party(<< "B", "i", "j", "1" >>, 45, 30,
          [horizontal |-> null, vertical |-> null],
          null) }

\* The documents the page may be served: 1..MaxParties distinct parties in
\* any order.
Documents ==
  UNION { { d \in [1..n -> PartyPool] : \A i, j \in 1..n : d[i] = d[j] => i = j }
          : n \in 1..MaxParties }

seatsOrZero(party) ==
  IF party.electionResults2025 # null THEN party.electionResults2025[1].seats ELSE 0

\* Array.prototype.sort with the comparator seatsB - seatsA: a stable sort,
\* descending by seats, missing results counting as 0.
RECURSIVE insertSorted(_, _)
insertSorted(sorted, party) ==
  IF sorted = << >> THEN << party >>
  ELSE IF seatsOrZero(sorted[Len(sorted)]) >= seatsOrZero(party)
    THEN Append(sorted, party)
    ELSE Append(insertSorted(SubSeq(sorted, 1, Len(sorted) - 1), party),
                sorted[Len(sorted)])

RECURSIVE sortBySeats(_)
sortBySeats(a) ==
  IF a = << >> THEN << >>
  ELSE insertSorted(sortBySeats(SubSeq(a, 1, Len(a) - 1)), a[Len(a)])

-----------------------------------------------------------------------------
(* The controller's computations.  Party indices are 1-based here (the     *)
(* page numbers its checkboxes from 0).  The value of the `parties` URL    *)
(* parameter is null when the key is absent, else << the decoded string >>.*)

\* getQueryParties, mistaken: the names are not upper-cased.
getQueryPartiesNoUpper(partiesParam) ==
  IF partiesParam = null \/ partiesParam[1] = << >>
    THEN << >>
    ELSE LET names == split(partiesParam[1], ",")
         IN  [i \in 1..Len(names) |-> trim(names[i])]

\* UIController.getQueryParties: the upper-cased, trimmed names of the
\* `parties` parameter; no names when it is absent or empty.
getQueryParties(partiesParam) ==
  IF partiesParam = null \/ partiesParam[1] = << >>
    THEN << >>
    ELSE LET names == split(partiesParam[1], ",")
         IN  [i \in 1..Len(names) |-> toUpperCase(trim(names[i]))]

\* updateQueryParams, mistaken: the key is set even for no names.
updateQueryParamsEmptyValue(selectedShortNames) ==
  << join(selectedShortNames, << "," >>) >>

\* UIController.updateQueryParams: the new value of the `parties` parameter,
\* the key deleted for no names.
updateQueryParams(selectedShortNames) ==
  IF Len(selectedShortNames) = 0
    THEN null
    ELSE << join(selectedShortNames, << "," >>) >>

\* The checkboxes preSelectFromQuery checks: those of the parties whose
\* upper-cased short name is among the query names.
matchingParties(parties, queryParties) ==
  { index \in 1..Len(parties) :
      includes(queryParties, toUpperCase(parties[index].shortName)) }

\* The loop of handlePartySelection over the checkboxes, in document order.
RECURSIVE collectChecked(_, _)
collectChecked(n, checked) ==
  IF n = 0 THEN << >>
  ELSE IF n \in checked
    THEN Append(collectChecked(n - 1, checked), n)
    ELSE collectChecked(n - 1, checked)

\* The seat total handlePartySelection passes to updateCoalitionStats.
RECURSIVE totalSeatsOf(_, _)
totalSeatsOf(parties, selected) ==
  IF selected = << >> THEN 0
  ELSE totalSeatsOf(parties, SubSeq(selected, 1, Len(selected) - 1))
         + seatsOrZero(parties[selected[Len(selected)]])

\* Sum of f[index] over the selected indices.
RECURSIVE sumOver(_, _)
sumOver(selected, f) ==
  IF selected = << >> THEN 0
  ELSE sumOver(SubSeq(selected, 1, Len(selected) - 1), f) + f[selected[Len(selected)]]

statsWeight(party, useWeighted) ==
  IF useWeighted /\ party.electionResults2025 # null
    THEN party.electionResults2025[1].seats
    ELSE 1

signedValue(axis, positiveLabel) ==
  LET value == IF axis # null THEN axis[1].value ELSE 0
  IN  IF axis # null /\ axis[1].direction = positiveLabel THEN value ELSE -value

\* The divisor totalWeight that updateCoalitionStats accumulates over the
\* selected parties.
totalWeightOf(parties, selected, useWeighted) ==
  sumOver(selected, [i \in 1..Len(parties) |-> statsWeight(parties[i], useWeighted)])

\* UIController.updateCoalitionStats for a non-empty selection: the content
\* written to coalitionStatsContent.
updateCoalitionStats(parties, selected, useWeighted, totalSeats) ==
  LET weight        == [i \in 1..Len(parties) |-> statsWeight(parties[i], useWeighted)]
      horizontal    == [i \in 1..Len(parties) |->
                          signedValue(parties[i].politicalPosition.horizontal, "rechts")
                            * weight[i]]
      vertical      == [i \in 1..Len(parties) |->
                          signedValue(parties[i].politicalPosition.vertical, "conservatief")
                            * weight[i]]
      totalWeight   == totalWeightOf(parties, selected, useWeighted)
      avgHorizontal == Div(sumOver(selected, horizontal), totalWeight)
      avgVertical   == Div(sumOver(selected, vertical), totalWeight)
  IN  [ seats      |-> totalSeats,
        horizontal |-> [ value |-> toFixed1(MathAbs(avgHorizontal)),
                         label |-> IF GreaterEqualZero(avgHorizontal)
                                     THEN "rechts" ELSE "links" ],
        vertical   |-> [ value |-> toFixed1(MathAbs(avgVertical)),
                         label |-> IF GreaterEqualZero(avgVertical)
                                     THEN "conservatief" ELSE "progressief" ] ]

averageWeight(party) ==
  IF party.electionResults2025 # null THEN party.electionResults2025[1].seats ELSE 1

\* calculateAverage, mistaken: the weighted sums are always divided by the
\* seat total.
calculateAverageNoFallback(parties, selected, useWeighted) ==
  IF selected = << >> THEN null
  ELSE IF useWeighted
    THEN LET seats == [i \in 1..Len(parties) |-> averageWeight(parties[i])]
             sumX  == sumOver(selected, [i \in 1..Len(parties) |->
                                           parties[i].position.x * seats[i]])
             sumY  == sumOver(selected, [i \in 1..Len(parties) |->
                                           parties[i].position.y * seats[i]])
             totalSeats == sumOver(selected, seats)
         IN  << [ x |-> Div(sumX, totalSeats), y |-> Div(sumY, totalSeats) ] >>
    ELSE LET sumX == sumOver(selected, [i \in 1..Len(parties) |-> parties[i].position.x])
             sumY == sumOver(selected, [i \in 1..Len(parties) |-> parties[i].position.y])
         IN  << [ x |-> Div(sumX, Len(selected)), y |-> Div(sumY, Len(selected)) ] >>

\* calculateAverage, mistaken: the weighted-average checkbox is ignored.
calculateAverageUnweighted(parties, selected, useWeighted) ==
  IF selected = << >> THEN null
  ELSE LET sumX == sumOver(selected, [i \in 1..Len(parties) |-> parties[i].position.x])
           sumY == sumOver(selected, [i \in 1..Len(parties) |-> parties[i].position.y])
       IN  << [ x |-> Div(sumX, Len(selected)), y |-> Div(sumY, Len(selected)) ] >>

\* calculateAverage, mistaken: the weighted sums are divided by the number
\* of selected parties.
calculateAverageByCount(parties, selected, useWeighted) ==
  IF selected = << >> THEN null
  ELSE LET seats == [i \in 1..Len(parties) |->
                       IF useWeighted THEN averageWeight(parties[i]) ELSE 1]
           sumX  == sumOver(selected, [i \in 1..Len(parties) |->
                                         parties[i].position.x * seats[i]])
           sumY  == sumOver(selected, [i \in 1..Len(parties) |->
                                         parties[i].position.y * seats[i]])
       IN  << [ x |-> Div(sumX, Len(selected)), y |-> Div(sumY, Len(selected)) ] >>

\* UIController.calculateAverage: null for the empty selection, else the
\* simple or the seat-weighted average of the icon positions; a seat total
\* of 0 is replaced by the number of selected parties.
calculateAverage(parties, selected, useWeighted) ==
  IF selected = << >> THEN null
  ELSE IF useWeighted
    THEN LET seats == [i \in 1..Len(parties) |-> averageWeight(parties[i])]
             sumX  == sumOver(selected, [i \in 1..Len(parties) |->
                                           parties[i].position.x * seats[i]])
             sumY  == sumOver(selected, [i \in 1..Len(parties) |->
                                           parties[i].position.y * seats[i]])
             totalSeats == sumOver(selected, seats)
         IN  << [ x |-> IF totalSeats > 0 THEN Div(sumX, totalSeats)
                                          ELSE Div(sumX, Len(selected)),
                  y |-> IF totalSeats > 0 THEN Div(sumY, totalSeats)
                                          ELSE Div(sumY, Len(selected)) ] >>
    ELSE LET sumX == sumOver(selected, [i \in 1..Len(parties) |-> parties[i].position.x])
             sumY == sumOver(selected, [i \in 1..Len(parties) |-> parties[i].position.y])
         IN  << [ x |-> Div(sumX, Len(selected)), y |-> Div(sumY, Len(selected)) ] >>

\* Half of the 10% icon size.
iconOffset == 5

\* updateCompassMarker, mistaken: the existing marker is not removed.
updateCompassMarkerKeepOld(svgPresent, oldMarkers, average) ==
  IF ~svgPresent THEN oldMarkers
  ELSE IF average = null THEN oldMarkers
  ELSE Append(oldMarkers, [ cx |-> Plus(average[1].x, iconOffset),
                            cy |-> Plus(average[1].y, iconOffset) ])

\* UIController.updateCompassMarker: the average markers in the compass
\* after the call.  Without an svg in the page it changes nothing; else the
\* first existing marker is removed and, for a non-null average, a marker is
\* appended at the average plus the icon offset.
updateCompassMarker(svgPresent, oldMarkers, average) ==
  IF ~svgPresent THEN oldMarkers
  ELSE LET kept == IF oldMarkers # << >> THEN Tail(oldMarkers) ELSE oldMarkers
       IN  IF average = null THEN kept
           ELSE Append(kept, [ cx |-> Plus(average[1].x, iconOffset),
                               cy |-> Plus(average[1].y, iconOffset) ])

-----------------------------------------------------------------------------
(* The page.                                                               *)

VARIABLES
  document,         \* parties-data.json as the server holds it
  openedWith,       \* the `parties` parameter of the URL the page was opened with
  shared,           \* the indices (in the sorted table) of the parties that URL names
  url,              \* the `parties` parameter of window.location
  pc,               \* where handleParse stands
  rafPending,       \* the requestAnimationFrame callback of preSelectFromQuery is queued
  parties,          \* this.parties
  partyPicker,      \* what #partyPicker shows: "loading", "list" or "error"
  checked,          \* the indices of the checkboxes that are checked
  weighted,         \* #weighted-average is checked
  selectedParties,  \* this.selectedParties, in insertion order
  selectedCount,    \* text of #selectedCount
  coalitionStats,   \* #coalitionStats: its display style and its content
  svgDisplay,       \* what #svgDisplay holds: "empty" or "svg"
  markers,          \* the #averageMarker groups in the compass
  hpsRuns,          \* runs of handlePartySelection so far: 0, 1 or 2 (two or more)
  preSelected,      \* preSelectFromQuery has run
  lastStep          \* the handler that ran last

vars ==
  << document, openedWith, shared, url, pc, rafPending, parties, partyPicker,
     checked, weighted, selectedParties, selectedCount, coalitionStats,
     svgDisplay, markers, hpsRuns, preSelected, lastStep >>

shortNamesOf(table, selected) ==
  [k \in 1..Len(selected) |-> table[selected[k]].shortName]

\* Every spelling of s in upper and lower case letters.
RECURSIVE CaseVariants(_)
CaseVariants(s) ==
  IF s = << >> THEN { << >> }
  ELSE { << c >> \o t : c \in { toUpperCaseChar(Head(s)), toLowerCaseChar(Head(s)) },
                        t \in CaseVariants(Tail(s)) }

\* The links to a selection: what updateQueryParams wrote for it, in any
\* letter case, and the same list typed with a blank after each comma.
LinksTo(table, selection) ==
  LET names == shortNamesOf(table, collectChecked(Len(table), selection))
  IN  { << v >> : v \in CaseVariants(updateQueryParams(names)[1]) }
        \cup { << join(names, << ",", " " >>) >> }

\* The state when the constructor returns: handleParse has shown "Loading
\* data...", started the fetch of the data document and suspended; the change
\* listener of the weighted-average checkbox is registered.
Init ==
  /\ document \in Documents
  /\ shared \in SUBSET (1..Len(document))
  /\ openedWith \in IF shared = {} THEN { null }
                                   ELSE LinksTo(sortBySeats(document), shared)
  /\ url = openedWith
  /\ pc = "load"
  /\ rafPending = FALSE
  /\ parties = << >>
  /\ partyPicker = "loading"
  /\ checked = {}
  /\ weighted \in BOOLEAN
  /\ selectedParties = << >>
  /\ selectedCount = << >>
  /\ coalitionStats = [display |-> "", content |-> null]
  /\ svgDisplay = "empty"
  /\ markers = << >>
  /\ hpsRuns = 0
  /\ preSelected = FALSE
  /\ lastStep = "constructor"

\* UIController.handlePartySelection, run with the checkboxes `checkedNow`
\* and the weighted-average checkbox `weightedNow`.
handlePartySelection(checkedNow, weightedNow) ==
  LET selected   == collectChecked(Len(parties), checkedNow)
      shortNames == shortNamesOf(parties, selected)
      totalSeats == totalSeatsOf(parties, selected)
  IN  /\ selectedParties' = selected
      /\ selectedCount' =
           IF Len(selected) = 0
             THEN << "Geselecteerd: ", "geen" >>
             ELSE << "Geselecteerd: " >> \o join(shortNames, << ",", " " >>)
      /\ coalitionStats' =
           IF Len(selected) = 0
             THEN [coalitionStats EXCEPT !.display = "none"]
             ELSE [ display |-> "inline-block",
                    content |-> << updateCoalitionStats(parties, selected,
                                                        weightedNow, totalSeats) >> ]
      /\ url' = updateQueryParams(shortNames)
      /\ markers' = updateCompassMarker(svgDisplay = "svg", markers,
                                        calculateAverage(parties, selected, weightedNow))
      /\ hpsRuns' = IF hpsRuns < 2 THEN hpsRuns + 1 ELSE 2

\* UIController.preSelectFromQuery, run with the checkboxes `checkedNow`.
preSelectFromQuery(checkedNow) ==
  LET queryParties == getQueryParties(url)
  IN  /\ preSelected' = TRUE
      /\ IF Len(queryParties) = 0
           THEN /\ checked' = checkedNow
                /\ rafPending' = rafPending
           ELSE /\ checked' = checkedNow \cup matchingParties(parties', queryParties)
                /\ rafPending' = TRUE

\* handleParse, mistaken: the pre-selection does not wait for the diagram.
LoadResolveNoWait ==
  /\ pc = "load"
  /\ parties' = sortBySeats(document)
  /\ partyPicker' = "list"
  /\ pc' = "svg"
  /\ preSelectFromQuery({})
  /\ lastStep' = "LoadResolve"
  /\ UNCHANGED << document, openedWith, shared, url, weighted, selectedParties,
                  selectedCount, coalitionStats, svgDisplay, markers, hpsRuns >>

\* parser.load() resolves: handleParse sorts the parties, renders the
\* checkbox list and starts the fetch of kompas.svg.
LoadResolve ==
  /\ pc = "load"
  /\ parties' = sortBySeats(document)
  /\ partyPicker' = "list"
  /\ checked' = {}
  /\ pc' = "svg"
  /\ lastStep' = "LoadResolve"
  /\ UNCHANGED << document, openedWith, shared, url, rafPending, weighted,
                  selectedParties, selectedCount, coalitionStats, svgDisplay,
                  markers, hpsRuns, preSelected >>

\* parser.load() rejects (the fetch fails or the body is no JSON): the catch
\* block of handleParse shows the error in #partyPicker.
LoadReject ==
  /\ pc = "load"
  /\ partyPicker' = "error"
  /\ pc' = "failedLoad"
  /\ lastStep' = "LoadReject"
  /\ UNCHANGED << document, openedWith, shared, url, rafPending, parties, checked,
                  weighted, selectedParties, selectedCount, coalitionStats,
                  svgDisplay, markers, hpsRuns, preSelected >>

\* displaySVG() resolves: the diagram is in the page (a fresh one, without a
\* marker) and handleParse goes on to preSelectFromQuery.
SVGResolve ==
  /\ pc = "svg"
  /\ svgDisplay' = "svg"
  /\ markers' = << >>
  /\ parties' = parties
  /\ preSelectFromQuery(checked)
  /\ pc' = "done"
  /\ lastStep' = "SVGResolve"
  /\ UNCHANGED << document, openedWith, shared, url, partyPicker, weighted,
                  selectedParties, selectedCount, coalitionStats, hpsRuns >>

\* displaySVG() rejects: the catch block of handleParse replaces the content
\* of #partyPicker, the checkbox list, by the error.
SVGReject ==
  /\ pc = "svg"
  /\ partyPicker' = "error"
  /\ checked' = {}
  /\ pc' = "failedSVG"
  /\ lastStep' = "SVGReject"
  /\ UNCHANGED << document, openedWith, shared, url, rafPending, parties, weighted,
                  selectedParties, selectedCount, coalitionStats, svgDisplay,
                  markers, hpsRuns, preSelected >>

\* The animation-frame callback queued by preSelectFromQuery.
AnimationFrame ==
  /\ rafPending
  /\ rafPending' = FALSE
  /\ handlePartySelection(checked, weighted)
  /\ lastStep' = "AnimationFrame"
  /\ UNCHANGED << document, openedWith, shared, pc, parties, partyPicker, checked,
                  weighted, svgDisplay, preSelected >>

\* The user clicks the checkbox of a party: its change listener runs.
PartyCheckboxChange ==
  /\ partyPicker = "list"
  /\ \E index \in 1..Len(parties) :
       LET checkedNow == IF index \in checked THEN checked \ { index }
                                              ELSE checked \cup { index }
       IN  /\ checked' = checkedNow
           /\ handlePartySelection(checkedNow, weighted)
  /\ lastStep' = "PartyCheckboxChange"
  /\ UNCHANGED << document, openedWith, shared, pc, rafPending, parties,
                  partyPicker, weighted, svgDisplay, preSelected >>

\* The user clicks the weighted-average checkbox: its change listener runs.
WeightedAverageChange ==
  /\ weighted' = ~weighted
  /\ handlePartySelection(checked, ~weighted)
  /\ lastStep' = "WeightedAverageChange"
  /\ UNCHANGED << document, openedWith, shared, pc, rafPending, parties,
                  partyPicker, checked, svgDisplay, preSelected >>

Next ==
  \/ LoadResolve
  \/ LoadReject
  \/ SVGResolve
  \/ SVGReject
  \/ AnimationFrame
  \/ PartyCheckboxChange
  \/ WeightedAverageChange

Spec == Init /\ [][Next]_vars

-----------------------------------------------------------------------------
(* Vocabulary of the properties.                                           *)

\* The steps that run handlePartySelection.
SelectionSteps == { "AnimationFrame", "PartyCheckboxChange", "WeightedAverageChange" }

Range(a) == { a[k] : k \in 1..Len(a) }

RECURSIVE SetSum(_, _)
SetSum(S, f) ==
  IF S = {} THEN 0
  ELSE LET i == CHOOSE j \in S : TRUE IN f[i] + SetSum(S \ { i }, f)

Selection == Range(selectedParties)

\* The average the marker on the compass stands for: its centre less the
\* icon offset.
MarkerAverage ==
  [ x |-> Plus(markers[Len(markers)].cx, -iconOffset),
    y |-> Plus(markers[Len(markers)].cy, -iconOffset) ]

\* The fraction q is the quotient num / den of integers, den > 0.
IsQuotient(q, num, den) == q[2] > 0 /\ q[1] * den = num * q[2]

PositionX == [i \in 1..Len(parties) |-> parties[i].position.x]
PositionY == [i \in 1..Len(parties) |-> parties[i].position.y]

\* Seats of a party, none counted for a party without election results.
Seats == [i \in 1..Len(parties) |-> seatsOrZero(parties[i])]

\* Weight of a party in the weighted position: its seats, and 1 for a party
\* without election results.
Weight ==
  [i \in 1..Len(parties) |->
     IF parties[i].electionResults2025 = null THEN 1
     ELSE parties[i].electionResults2025[1].seats]

Times(f, g) == [i \in 1..Len(parties) |-> f[i] * g[i]]

\* A run of handlePartySelection has just drawn the marker of a selection.
MarkerDrawn ==
  /\ lastStep \in SelectionSteps
  /\ svgDisplay = "svg"
  /\ Selection # {}
  /\ Len(markers) = 1

-----------------------------------------------------------------------------
(* C1: URL round trip.  When the page is opened with the `parties` value   *)
(* that updateQueryParams wrote for a non-empty selection S, spelled in    *)
(* any letter case, preSelectFromQuery checks exactly the checkboxes of S, *)
(* and the handlePartySelection that follows rebuilds the selection S.     *)
C1_RoundTrip ==
  /\ (lastStep = "SVGResolve" /\ hpsRuns = 0 /\ shared # {})
       => checked = shared /\ rafPending
  /\ (lastStep = "AnimationFrame" /\ hpsRuns = 1 /\ shared # {})
       => Selection = shared

\* A link to two parties, spelled in another case than the stored names, has
\* been restored.
C1_Witness ==
  /\ lastStep = "AnimationFrame"
  /\ hpsRuns = 1
  /\ Cardinality(shared) = 2
  /\ openedWith # url
  /\ \A k \in 1..Len(openedWith[1]) : openedWith[1][k] # " "
  /\ Selection = shared

(* C2: in every interleaving of the load with user events, the checkboxes  *)
(* of the parties named by the URL the page was opened with are checked    *)
(* before the first run of handlePartySelection, so the first run sees the *)
(* shared selection.                                                       *)
C2_SharedSelectionFirst ==
  hpsRuns = 1 => shared \subseteq Selection

(* C3: after every run of handlePartySelection the `parties` key is absent *)
(* exactly when no checkbox is checked, and otherwise lists, separated by  *)
(* commas, the stored short names of exactly the checked parties in index  *)
(* order.                                                                  *)
C3_UrlIsProjection ==
  lastStep \in SelectionSteps =>
    /\ url = null <=> checked = {}
    /\ url # null =>
         LET names == split(url[1], ",")
             boxes == collectChecked(Len(parties), checked)
         IN  /\ Len(names) = Cardinality(checked)
             /\ \A k \in 1..Len(names) : names[k] = parties[boxes[k]].shortName

\* The last selected party has been unchecked: the statistics of the former
\* selection are still in the hidden panel, and the key is gone.
C3_Witness ==
  /\ lastStep = "PartyCheckboxChange"
  /\ checked = {}
  /\ coalitionStats.content # null
  /\ openedWith # null
  /\ url = null

(* C4 as amended: for a non-empty selection calculateAverage returns the   *)
(* arithmetic mean of the positions when the weighted-average checkbox is  *)
(* off; when it is on and the weights (the seats, 1 for a party without    *)
(* election results) sum to more than 0, it returns the mean weighted by   *)
(* them.                                                                   *)
C4_AveragePosition ==
  MarkerDrawn =>
    /\ ~weighted =>
         /\ IsQuotient(MarkerAverage.x, SetSum(Selection, PositionX),
                       Cardinality(Selection))
         /\ IsQuotient(MarkerAverage.y, SetSum(Selection, PositionY),
                       Cardinality(Selection))
    /\ (weighted /\ SetSum(Selection, Weight) > 0) =>
         /\ IsQuotient(MarkerAverage.x, SetSum(Selection, Times(Weight, PositionX)),
                       SetSum(Selection, Weight))
         /\ IsQuotient(MarkerAverage.y, SetSum(Selection, Times(Weight, PositionY)),
                       SetSum(Selection, Weight))

\* The weighted marker of two parties of different weight.
C4_Witness ==
  /\ MarkerDrawn
  /\ weighted
  /\ \E i, j \in Selection : Weight[i] > Weight[j] /\ Weight[j] > 0
  /\ MarkerAverage.x # Div(SetSum(Selection, PositionX), Cardinality(Selection))

(* C4 as stated: for every non-empty selection the weighted result is the  *)
(* mean of the positions weighted by the seats of the parties.             *)
C4_AsStated ==
  (MarkerDrawn /\ weighted) =>
    /\ SetSum(Selection, Seats) > 0
    /\ IsQuotient(MarkerAverage.x, SetSum(Selection, Times(Seats, PositionX)),
                  SetSum(Selection, Seats))
    /\ IsQuotient(MarkerAverage.y, SetSum(Selection, Times(Seats, PositionY)),
                  SetSum(Selection, Seats))

\* The party table with the seats of the selected parties multiplied by k.
scaleSeats(table, selection, k) ==
  [i \in 1..Len(table) |->
     IF i \in selection /\ table[i].electionResults2025 # null
       THEN [table[i] EXCEPT !.electionResults2025 =
               << [seats |-> k * table[i].electionResults2025[1].seats] >>]
       ELSE table[i]]

ScaledAverages ==
  { calculateAverage(scaleSeats(parties, Selection, k), selectedParties, TRUE) :
      k \in 1..MaxScale }

(* C5 as amended: for a non-empty selection in which every party has       *)
(* election results, multiplying the seats of every selected party by a    *)
(* positive integer leaves the weighted result of calculateAverage         *)
(* unchanged.                                                              *)
C5_ScaleInvariant ==
  (MarkerDrawn /\ weighted
     /\ \A i \in Selection : parties[i].electionResults2025 # null)
    => ScaledAverages = { << MarkerAverage >> }

\* A weighted marker of a selection with seats, and a factor above 1.
C5_Witness ==
  /\ MarkerDrawn
  /\ weighted
  /\ Cardinality(Selection) = 2
  /\ \A i \in Selection : parties[i].electionResults2025 # null
  /\ SetSum(Selection, Seats) > 0
  /\ MaxScale > 1

(* C5 as stated: for every non-empty selection, multiplying the seats of   *)
(* every selected party by a positive integer leaves the weighted result   *)
(* unchanged.                                                              *)
C5_AsStated ==
  (MarkerDrawn /\ weighted) => ScaledAverages = { << MarkerAverage >> }

\* Weight of a party in the axis averages: its seats when the weighted-average
\* checkbox is on and the party has election results, else 1.
AxisWeight ==
  [i \in 1..Len(parties) |->
     IF weighted /\ parties[i].electionResults2025 # null
       THEN parties[i].electionResults2025[1].seats
       ELSE 1]

\* The signed value of a party on an axis: +value for the positive label,
\* -value for the other label, 0 without data.
Signed(axis, positiveLabel) ==
  IF axis = null THEN 0
  ELSE IF axis[1].direction = positiveLabel THEN axis[1].value
  ELSE -axis[1].value

SignedHorizontal ==
  [i \in 1..Len(parties) |-> Signed(parties[i].politicalPosition.horizontal, "rechts")]

SignedVertical ==
  [i \in 1..Len(parties) |->
     Signed(parties[i].politicalPosition.vertical, "conservatief")]

\* What the panel shows for a mean num / den: the magnitude rounded to one
\* decimal, and the positive label exactly when the mean is >= 0.
AxisDisplay(num, den, positiveLabel, negativeLabel) ==
  [ value |-> [text |-> "number", tenths |-> (20 * Abs(num) + den) \div (2 * den)],
    label |-> IF num >= 0 THEN positiveLabel ELSE negativeLabel ]

(* C6: for every non-empty selection updateCoalitionStats shows, on each   *)
(* axis, the weighted or unweighted mean of the signed values of the       *)
(* selected parties: the positive label when the mean is >= 0, the         *)
(* negative label otherwise, and the absolute value of the mean.           *)
C6_SignedAxisAverage ==
  (lastStep \in SelectionSteps /\ Selection # {}) =>
    /\ SetSum(Selection, AxisWeight) > 0
    /\ coalitionStats.content[1].horizontal =
         AxisDisplay(SetSum(Selection, Times(AxisWeight, SignedHorizontal)),
                     SetSum(Selection, AxisWeight), "rechts", "links")
    /\ coalitionStats.content[1].vertical =
         AxisDisplay(SetSum(Selection, Times(AxisWeight, SignedVertical)),
                     SetSum(Selection, AxisWeight), "conservatief", "progressief")

\* The display of updateCoalitionStats for the selections whose weights do
\* not sum to 0.
C6_WithPositiveWeight ==
  (lastStep \in SelectionSteps /\ Selection # {}
     /\ SetSum(Selection, AxisWeight) > 0) =>
    /\ coalitionStats.content[1].horizontal =
         AxisDisplay(SetSum(Selection, Times(AxisWeight, SignedHorizontal)),
                     SetSum(Selection, AxisWeight), "rechts", "links")
    /\ coalitionStats.content[1].vertical =
         AxisDisplay(SetSum(Selection, Times(AxisWeight, SignedVertical)),
                     SetSum(Selection, AxisWeight), "conservatief", "progressief")

(* C7: the diagram holds at most one average marker, and after each run of *)
(* handlePartySelection with the diagram loaded it holds exactly one when  *)
(* the selection is non-empty and none when the selection is empty.        *)
C7_OneMarker ==
  /\ Len(markers) <= 1
  /\ (lastStep \in SelectionSteps /\ svgDisplay = "svg") =>
       Len(markers) = IF Selection = {} THEN 0 ELSE 1

\* With the diagram loaded, a marker was drawn and the selection was then
\* emptied: the marker is gone.
C7_Witness ==
  /\ lastStep = "PartyCheckboxChange"
  /\ svgDisplay = "svg"
  /\ hpsRuns = 2
  /\ openedWith # null
  /\ ~rafPending
  /\ Selection = {}
  /\ markers = << >>

(* C8: a failed load is a local error state: when the party data fails to  *)
(* load the error is shown in place of the checkbox list; when the diagram *)
(* fails to load the rendered checkbox list stays in the page and usable,  *)
(* and updateCompassMarker draws nothing.                                  *)
C8_LoadFailureIsLocal ==
  /\ pc = "failedLoad" => partyPicker = "error"
  /\ pc = "failedSVG" => partyPicker = "list" /\ markers = << >>

C10_ZeroWeightFallback ==
  (MarkerDrawn /\ weighted /\ SetSum(Selection, Weight) = 0) =>
    /\ IsQuotient(MarkerAverage.x, SetSum(Selection, Times(Weight, PositionX)),
                  Cardinality(Selection))
    /\ IsQuotient(MarkerAverage.y, SetSum(Selection, Times(Weight, PositionY)),
                  Cardinality(Selection))

\* The weighted marker of a selection without any seat.
C10_Witness ==
  /\ lastStep \in SelectionSteps
  /\ svgDisplay = "svg"
  /\ weighted
  /\ Selection # {}
  /\ SetSum(Selection, Weight) = 0
  /\ markers = << [cx |-> << iconOffset, 1 >>, cy |-> << iconOffset, 1 >>] >>

(* C11: for every non-empty selection and both settings of the             *)
(* weighted-average checkbox, the divisor totalWeight of                   *)
(* updateCoalitionStats is strictly positive, so the horizontal and the    *)
(* vertical percentage shown are numbers, never the result of 0/0, also    *)
(* when every selected party has 0 seats.                                  *)
C11_PositiveDivisor ==
  (lastStep \in SelectionSteps /\ Selection # {}) =>
    /\ totalWeightOf(parties, selectedParties, weighted) > 0
    /\ coalitionStats.display = "inline-block"
    /\ coalitionStats.content[1].horizontal.value.text = "number"
    /\ coalitionStats.content[1].vertical.value.text = "number"

\* The divisor is positive whenever the checkbox is off or some selected
\* party weighs more than 0.
C11_PositiveUnlessAllZero ==
  (lastStep \in SelectionSteps /\ Selection # {}
     /\ (~weighted \/ \E i \in Selection : AxisWeight[i] > 0)) =>
    /\ totalWeightOf(parties, selectedParties, weighted) > 0
    /\ coalitionStats.content[1].horizontal.value.text = "number"
    /\ coalitionStats.content[1].vertical.value.text = "number"

====
